---- MODULE Spec2Model ----
(***************************************************************************)
(* A model of src/router.rs: the typestate Router builder (new, route,     *)
(* the per-method builders, with_state) and the single-connection          *)
(* Service::serve loop (head read loop, dispatch, response write).         *)
(*                                                                         *)
(* Bytes are their ASCII codes, so that token classes, case folding and    *)
(* decimal conversion are computed and not assumed.  Rust offsets are      *)
(* 0-based and half open; here a range <<s, e>> is 1-based and closed, so  *)
(* Rust's buf[a..b] is SubSeq(buf, a + 1, b).                              *)
(***************************************************************************)
EXTENDS Integers, Sequences, FiniteSets, TLC

(***************************************************************************)
(* Bytes                                                                   *)
(***************************************************************************)
Ascii ==
  << " ", "!", "DQUOTE", "#", "$", "%", "&", "'", "(", ")", "*", "+", ",", "-", ".", "/",
     "0", "1", "2", "3", "4", "5", "6", "7", "8", "9", ":", ";", "<", "=", ">", "?",
     "@", "A", "B", "C", "D", "E", "F", "G", "H", "I", "J", "K", "L", "M", "N", "O",
     "P", "Q", "R", "S", "T", "U", "V", "W", "X", "Y", "Z", "[", "BACKSLASH", "]", "^", "_",
     "BACKTICK", "a", "b", "c", "d", "e", "f", "g", "h", "i", "j", "k", "l", "m", "n", "o",
     "p", "q", "r", "s", "t", "u", "v", "w", "x", "y", "z", "{", "|", "}", "~" >>

\* The byte of a printable character.
Ord(c) == 31 + (CHOOSE i \in 1..Len(Ascii) : Ascii[i] = c)

\* The bytes of a text given as a tuple of characters.
B(s) == [i \in 1..Len(s) |-> Ord(s[i])]

LF == 10
CR == 13
SP == Ord(" ")
TAB == SP - 23
COLON == Ord(":")
CRLF == <<CR, LF>>

\* The least j in lo..hi with P(j), and hi + 1 when there is none.
First(lo, hi, P(_)) ==
  IF \E j \in lo..hi : P(j)
    THEN CHOOSE j \in lo..hi : P(j) /\ \A k \in lo..(j - 1) : ~P(k)
    ELSE hi + 1

\* The bytes of a closed 1-based range of b.
Slice(b, r) == SubSeq(b, r[1], r[2])

(***************************************************************************)
(* httparse (external crate), as called at router.rs:160.                  *)
(* Character classes are those on which httparse releases agree for the    *)
(* bytes used here.                                                        *)
(***************************************************************************)
\* tchar of RFC 7230: method and header-name bytes
IsToken(c) ==
  \/ c \in 48..57
  \/ c \in 65..90
  \/ c \in 97..122
  \/ c \in {33, 35, 36, 37, 38, 39, 42, 43, 45, 46, 94, 95, 96, 124, 126}

IsUriToken(c) == c \in 33..126 /\ c \notin {34, 60, 62}

IsHeaderValueToken(c) == c = TAB \/ c \in 32..126 \/ c \in 128..255

HTTP1x == B(<<"H", "T", "T", "P", "/", "1", ".">>)

NoRange == <<1, 0>>

PResult(status, err, len, method, path, headers) ==
  [status |-> status, err |-> err, len |-> len, method |-> method,
   path |-> path, headers |-> headers]

PErr(e) == PResult("Err", e, 0, NoRange, NoRange, <<>>)
PPartial == PResult("Partial", "", 0, NoRange, NoRange, <<>>)

LResult(kind, err, end, name, value) ==
  [kind |-> kind, err |-> err, end |-> end, name |-> name, value |-> value]

\* One iteration of httparse's header loop, started at byte p of b.
HeaderLine(b, p) ==
  LET n == Len(b)
      ne == First(p, n, LAMBDA j : ~IsToken(b[j]))
      ws == First(ne + 1, n, LAMBDA j : b[j] \notin {SP, TAB})
      ve == First(ws, n, LAMBDA j : ~IsHeaderValueToken(b[j]))
      \* the value without its trailing blanks
      vl == IF \E j \in ws..(ve - 1) : b[j] \notin {SP, TAB}
              THEN CHOOSE j \in ws..(ve - 1) :
                     /\ b[j] \notin {SP, TAB}
                     /\ \A k \in (j + 1)..(ve - 1) : b[k] \in {SP, TAB}
              ELSE ws - 1
      LPartial == LResult("Partial", "", 0, NoRange, NoRange)
      LErr(e) == LResult("Err", e, 0, NoRange, NoRange)
  IN  IF p > n THEN LPartial
      ELSE IF b[p] = CR THEN
        IF p + 1 > n THEN LPartial
        ELSE IF b[p + 1] = LF THEN LResult("End", "", p + 1, NoRange, NoRange)
        ELSE LErr("NewLine")
      ELSE IF b[p] = LF THEN LResult("End", "", p, NoRange, NoRange)
      ELSE IF ~IsToken(b[p]) THEN LErr("HeaderName")
      ELSE IF ne > n THEN LPartial
      ELSE IF b[ne] # COLON THEN LErr("HeaderName")
      ELSE IF ws > n THEN LPartial
      ELSE IF ve > n THEN LPartial
      ELSE IF b[ve] = CR THEN
        IF ve + 1 > n THEN LPartial
        ELSE IF b[ve + 1] = LF
          THEN LResult("Header", "", ve + 1, <<p, ne - 1>>, <<ws, vl>>)
        ELSE LErr("HeaderValue")
      ELSE IF b[ve] = LF
        THEN LResult("Header", "", ve, <<p, ne - 1>>, <<ws, vl>>)
      ELSE LErr("HeaderValue")

\* a header array of max slots that stores every header it is given
HasSlot_unbounded(k, max) == TRUE

\* the header array of max slots has a slot for the k-th header
HasSlot(k, max) == k <= max

\* httparse's header loop from byte h0 of b, with room for max headers.
ParseHeaders(b, h0, max, method, path) ==
  LET n == Len(b)
      \* every turn of the loop starts at h0 or right after a line feed
      feeds == SelectSeq([i \in 1..(n - h0 + 1) |-> h0 + i - 1], LAMBDA j : b[j] = LF)
      starts == <<h0>> \o [k \in 1..Len(feeds) |-> feeds[k] + 1]
      \* the first turn that does not store a header
      stop == First(1, Len(starts), LAMBDA k : HeaderLine(b, starts[k]).kind # "Header")
      \* the first turn that begins a header and finds every slot taken
      full == First(1, stop, LAMBDA k :
                /\ starts[k] <= n
                /\ IsToken(b[starts[k]])
                /\ ~HasSlot(k, max))
      last == HeaderLine(b, starts[stop])
  IN  IF full <= stop THEN PErr("TooManyHeaders")
      ELSE IF last.kind = "Partial" THEN PPartial
      ELSE IF last.kind = "Err" THEN PErr(last.err)
      ELSE PResult("Complete", "", last.end, method, path,
             [k \in 1..(stop - 1) |->
                LET h == HeaderLine(b, starts[k])
                IN  [name |-> h.name, value |-> h.value]])

\* httparse::Request::parse_with_uninit_headers(b, headers) with
\* headers.len() = max.
Parse(b, max) ==
  LET n == Len(b)
      \* skip_empty_lines
      s == First(1, n, LAMBDA j : b[j] \notin {CR, LF})
      badCR == First(1, s - 1, LAMBDA j : b[j] = CR /\ (j + 1 > n \/ b[j + 1] # LF))
      \* parse_token
      me == First(s, n, LAMBDA j : ~IsToken(b[j]))
      \* parse_uri
      us == me + 1
      ue == First(us, n, LAMBDA j : ~IsUriToken(b[j]))
      \* parse_version
      vs == ue + 1
      have == IF n - vs + 1 < 7 THEN n - vs + 1 ELSE 7
      \* newline!
      nl == vs + 8
  IN  IF badCR <= s - 1 THEN (IF badCR + 1 > n THEN PPartial ELSE PErr("NewLine"))
      ELSE IF s > n THEN PPartial
      ELSE IF me = s THEN PErr("Token")
      ELSE IF me > n THEN PPartial
      ELSE IF b[me] # SP THEN PErr("Token")
      ELSE IF us > n THEN PPartial
      ELSE IF ue = us THEN PErr("Token")
      ELSE IF ue > n THEN PPartial
      ELSE IF b[ue] # SP THEN PErr("Token")
      ELSE IF n - vs + 1 < 8 THEN
        (IF SubSeq(b, vs, vs + have - 1) = SubSeq(HTTP1x, 1, have)
           THEN PPartial ELSE PErr("Version"))
      ELSE IF SubSeq(b, vs, vs + 6) # HTTP1x \/ b[vs + 7] \notin {48, 49}
        THEN PErr("Version")
      ELSE IF nl > n THEN PPartial
      ELSE IF b[nl] = CR THEN
        (IF nl + 1 > n THEN PPartial
         ELSE IF b[nl + 1] # LF THEN PErr("NewLine")
         ELSE ParseHeaders(b, nl + 2, max, <<s, me - 1>>, <<us, ue - 1>>))
      ELSE IF b[nl] = LF
        THEN ParseHeaders(b, nl + 1, max, <<s, me - 1>>, <<us, ue - 1>>)
      ELSE PErr("NewLine")


(***************************************************************************)
(* Bounds of the model                                                     *)
(***************************************************************************)
\* route()/per-method calls made before the Router is served
MaxRoutes == 2

(***************************************************************************)
(* Program constants                                                       *)
(***************************************************************************)
\* let mut buf = [0u8; 2048]
BUF_SIZE == 2048
\* the byte every cell of buf starts with
NUL == 0
MAX_HEADERS == 100
\* let mut buf = [0; 1024] of the body loop
TX_BUF_SIZE == 1024

(***************************************************************************)
(* Route nodes (crate::route) and the Router builder                       *)
(***************************************************************************)
\* the methods impl_method! is instantiated for
Methods ==
  { B(<<"G", "E", "T">>), B(<<"P", "O", "S", "T">>), B(<<"P", "U", "T">>),
    B(<<"D", "E", "L", "E", "T", "E">>), B(<<"H", "E", "A", "D">>),
    B(<<"O", "P", "T", "I", "O", "N", "S">>), B(<<"C", "O", "N", "N", "E", "C", "T">>),
    B(<<"P", "A", "T", "C", "H">>), B(<<"T", "R", "A", "C", "E">>) }

GET == B(<<"G", "E", "T">>)
POST == B(<<"P", "O", "S", "T">>)

NotFound == [kind |-> "NotFound"]
MethodRoute(m, h) == [kind |-> "Method", method |-> m, handler |-> h]
Path(path, route) == [kind |-> "Path", path |-> path, route |-> route]
Fallback(route, fallback) == [kind |-> "Fallback", route |-> route, fallback |-> fallback]

\* the application state types and the one value of each
StateTypes == {"Unit", "App"}
StateValue(t) == IF t = "Unit" THEN "()" ELSE "app"

\* Router<RS, R, S, HasRoute>
RouterOf(state, route, RS, S, HasRoute) ==
  [state |-> state, route |-> route, RS |-> RS, S |-> S, HasRoute |-> HasRoute]

\* Router::new()
Router_new(RS) == RouterOf("()", NotFound, RS, "Unit", "Untouched")

\* with_state that starts the route chain afresh
with_state_drops_routes(self, S2) ==
  RouterOf(StateValue(S2), NotFound, S2, S2, "HasAnyState")

\* Router::with_state(self, state), of either impl block
with_state(self, S2) ==
  RouterOf(StateValue(S2), self.route, S2, S2, "HasAnyState")

\* route() with the new route tried after the routes already there
route_behind(self, path, r) ==
  RouterOf(self.state, Fallback(self.route, Path(path, r)), self.RS, self.S,
           "HasAnyState")

\* route() that forgets the routes already there
route_alone(self, path, r) ==
  RouterOf(self.state, Path(path, r), self.RS, self.S, "HasAnyState")

\* Router::route(self, path, route)
route(self, path, r) ==
  RouterOf(self.state, Fallback(Path(path, r), self.route), self.RS, self.S,
           "HasAnyState")

\* Router::get, post, ... (impl_method!)
method_route(self, m, path, handler) == route(self, path, MethodRoute(m, handler))

(***************************************************************************)
(* Handlers (application code): what each responds with, as a status code  *)
(* and the chunks its response body producer has ready for each read.      *)
(***************************************************************************)
Handlers == {"H1", "H2"}

Pong == B(<<"p", "o", "n", "g">>)
\* a body one byte longer than the transmit buffer
Big == [i \in 1..(TX_BUF_SIZE + 1) |-> Ord("b")]

Response(status, body) == [status |-> status, body |-> body]

HandlerResponse(h) ==
  IF h = "H1" THEN Response(200, <<Pong>>)
  ELSE Response(201, <<Big>>)

\* the handlers that read the request Body to its end before they answer
ReadsBody == {"H1"}
\* the size of the buffer such a handler reads into
HandlerBufSize == 2

\* the state types a handler is a HandlerFunction for
HandlerStates(h) == IF h = "H1" THEN StateTypes ELSE {"App"}

\* R: Route<RS>
RECURSIVE IsRouteFor(_, _)
IsRouteFor(r, RS) ==
  IF r.kind = "NotFound" THEN TRUE
  ELSE IF r.kind = "Method" THEN RS \in HandlerStates(r.handler)
  ELSE IF r.kind = "Path" THEN IsRouteFor(r.route, RS)
  ELSE IsRouteFor(r.route, RS) /\ IsRouteFor(r.fallback, RS)

\* the response of the NotFound terminal
NotFoundResponse == Response(404, <<>>)

NoResponse == Response(0, <<>>)

Matched(invoked, response) == [matched |-> TRUE, invoked |-> invoked, response |-> response]
NoMatch == [matched |-> FALSE, invoked |-> <<>>, response |-> NoResponse]

\* Route::match_request(request, state): the handler invoked and its
\* response, or no match
RECURSIVE match_request(_, _)
match_request(r, request) ==
  IF r.kind = "NotFound" THEN Matched(<<>>, NotFoundResponse)
  ELSE IF r.kind = "Method" THEN
    (IF request.method = r.method
       THEN Matched(<<r.handler>>, HandlerResponse(r.handler))
       ELSE NoMatch)
  ELSE IF r.kind = "Path" THEN
    (IF request.path = r.path THEN match_request(r.route, request) ELSE NoMatch)
  ELSE
    LET first == match_request(r.route, request)
    IN  IF first.matched THEN first ELSE match_request(r.fallback, request)

(***************************************************************************)
(* Request pieces (crate::parse, crate::request, crate::Method)            *)
(***************************************************************************)
QMARK == Ord("?")

\* PathAndQuery::parse: split at the first '?'
PathAndQuery_parse(target) ==
  LET q == First(1, Len(target), LAMBDA j : target[j] = QMARK)
      path == SubSeq(target, 1, q - 1)
  IN  [ok |-> path # <<>> /\ \A j \in 1..Len(path) : path[j] \in 33..126,
       path |-> path,
       has_query |-> q <= Len(target),
       query |-> SubSeq(target, q + 1, Len(target))]

\* Method::new
Method_new(token) == [ok |-> token \in Methods, method |-> token]

ToLower(c) == IF c \in 65..90 THEN c + 32 ELSE c
EqIgnoreCase(a, b) ==
  Len(a) = Len(b) /\ \A i \in 1..Len(a) : ToLower(a[i]) = ToLower(b[i])

\* Headers::get_first(name) over (buf, header indices)
get_first(buf, headers, name) ==
  LET i == First(1, Len(headers), LAMBDA j : EqIgnoreCase(Slice(buf, headers[j].name), name))
  IN  IF i <= Len(headers)
        THEN [some |-> TRUE, value |-> Slice(buf, headers[i].value)]
        ELSE [some |-> FALSE, value |-> <<>>]

RECURSIVE Decimal(_)
\* the number a tuple of digit bytes denotes
Decimal(d) ==
  IF d = <<>> THEN 0 ELSE 10 * Decimal(SubSeq(d, 1, Len(d) - 1)) + (d[Len(d)] - 48)

\* str::parse::<usize>: an optional '+', then one or more digits, the
\* value within usize.  No usize has more than 20 significant digits;
\* the inputs keep every value that fits below 10^9.
ParseUsize(v) ==
  LET d == IF v # <<>> /\ v[1] = Ord("+") THEN Tail(v) ELSE v
      nz == First(1, Len(d), LAMBDA j : d[j] # 48)
      sig == SubSeq(d, nz, Len(d))
  IN  IF d = <<>> \/ \E j \in 1..Len(d) : d[j] \notin 48..57
        THEN [ok |-> FALSE, value |-> 0]
      ELSE IF Len(sig) > 20 THEN [ok |-> FALSE, value |-> 0]
      ELSE [ok |-> TRUE, value |-> Decimal(sig)]

ContentLengthName ==
  B(<<"C", "o", "n", "t", "e", "n", "t", "-", "L", "e", "n", "g", "t", "h">>)

\* a reading that skips values that do not parse and takes the first that does
content_length_first_parsable(buf, headers) ==
  LET ok(j) == /\ EqIgnoreCase(Slice(buf, headers[j].name), ContentLengthName)
               /\ ParseUsize(Slice(buf, headers[j].value)).ok
      i == First(1, Len(headers), ok)
  IN  IF i <= Len(headers) THEN ParseUsize(Slice(buf, headers[i].value)).value ELSE 0

\* parts.headers.get_first("Content-Length")
\*   .and_then(|value| value.parse::<usize>().ok()).unwrap_or(0)
content_length_of(buf, headers) ==
  LET h == get_first(buf, headers, ContentLengthName)
  IN  IF h.some /\ ParseUsize(h.value).ok THEN ParseUsize(h.value).value ELSE 0

RECURSIVE Digits(_)
\* Display of an unsigned number
Digits(n) == IF n < 10 THEN <<48 + n>> ELSE Digits(n \div 10) \o <<48 + (n % 10)>>

\* format_args!("HTTP/1.1 {}\r\n", response.status_code())
StatusLine(status) ==
  B(<<"H", "T", "T", "P", "/", "1", ".", "1", " ">>) \o Digits(status) \o CRLF

(***************************************************************************)
(* Transport inputs: what the peer sends, as the runs of bytes that        *)
(* successive reads find available (a read takes what is there, up to the  *)
(* room it offers; with nothing left the transport is closed).             *)
(***************************************************************************)
HTTP11 == B(<<"H", "T", "T", "P", "/", "1", ".", "1">>)
ReqLine(m, target) == m \o <<SP>> \o target \o <<SP>> \o HTTP11 \o CRLF
Header(name, value) == name \o <<COLON, SP>> \o value \o CRLF
Rep(h, k) == [i \in 1..(k * Len(h)) |-> h[((i - 1) % Len(h)) + 1]]
SplitAt(b, k) == <<SubSeq(b, 1, k), SubSeq(b, k + 1, Len(b))>>

PathPing == B(<<"/", "p", "i", "n", "g">>)
PathX == B(<<"/", "x">>)
PathNope == B(<<"/", "n", "o", "p", "e">>)
\* the (method, path) pairs routes are registered for
RouteKeys == {<<GET, PathPing>>, <<POST, PathPing>>, <<POST, PathX>>}

Abc == B(<<"a", "b", "c">>)
Three == B(<<"3">>)
LowerName ==
  B(<<"c", "o", "n", "t", "e", "n", "t", "-", "l", "e", "n", "g", "t", "h">>)
UpperName ==
  B(<<"C", "O", "N", "T", "E", "N", "T", "-", "L", "E", "N", "G", "T", "H">>)

\* GET /ping HTTP/1.1\r\nHost: x\r\n\r\n
PingReq ==
  ReqLine(GET, PathPing) \o Header(B(<<"H", "o", "s", "t">>), B(<<"x">>)) \o CRLF
\* POST /x HTTP/1.1\r\nContent-Length: 3\r\n\r\n
PostHead == ReqLine(POST, PathX) \o Header(ContentLengthName, Three) \o CRLF
\* POST /x with the given header lines
PostWith(hs) == ReqLine(POST, PathX) \o hs \o CRLF
\* a head with k one-letter headers
Many(k) == ReqLine(GET, PathNope) \o Rep(Header(B(<<"a">>), B(<<"1">>)), k) \o CRLF
\* BUF_SIZE bytes of a request line that has not ended yet
Fill == [i \in 1..BUF_SIZE |-> IF i <= 5 THEN (GET \o <<SP, Ord("/")>>)[i] ELSE Ord("a")]

Inputs ==
  { <<>>,
    <<PingReq>>,
    SplitAt(PingReq, 3),
    <<PostHead \o Abc>>,
    <<PostHead, Abc>>,
    <<PostHead \o B(<<"a">>), B(<<"b", "c", "d">>)>>,
    <<PostHead \o B(<<"a">>)>>,
    <<ReqLine(GET, PathNope) \o CRLF>>,
    <<ReqLine(POST, PathPing) \o CRLF>>,
    <<ReqLine(GET, B(<<"?", "q">>)) \o CRLF>>,
    <<ReqLine(B(<<"B", "R", "E", "W">>), PathPing) \o CRLF>>,
    <<ReqLine(B(<<"B", "R", "E", "W">>), B(<<"?", "q">>)) \o CRLF>>,
    <<ReqLine(GET, PathPing) \o B(<<"H", "o", "s", "t", " ", "x">>) \o CRLF \o CRLF>>,
    <<B(<<"G", "E", "T", " ", "/", " ", "H", "T", "T", "X">>)>>,
    <<PostWith(Header(LowerName, B(<<"x">>)) \o Header(ContentLengthName, Three)) \o Abc>>,
    <<PostWith(Header(UpperName, B(<<"2">>)) \o Header(ContentLengthName, Three)) \o Abc>>,
    <<PostWith(Header(ContentLengthName, Rep(B(<<"9">>), 21))) \o Abc>>,
    <<Many(MAX_HEADERS)>>,
    <<Many(MAX_HEADERS + 1)>>,
    <<Fill \o PingReq>> }

(***************************************************************************)
(* State                                                                   *)
(***************************************************************************)
VARIABLES
  router,          \* the Router being built, then served
  registered,      \* the route()/per-method calls made, in call order
  pc,              \* "build", then serve's position, then "done"
  reader,          \* the runs of bytes the transport still holds
  buf,             \* serve's raw buffer
  pos,             \* serve's fill position
  req,             \* the result of the last parse of the head loop
  content_length,  \* serve's content_length
  response,        \* the response: status code, chunks its body still holds
  tx,              \* the chunk read from the response body, not yet written
  writer,          \* the bytes written to the writer so far
  result,          \* what serve returned
  reads,           \* the length each head read returned (-1: an error)
  invoked,         \* the handlers invoked
  writes,          \* the byte runs written, one per write call
  body_reads,      \* the length each response body read returned (-1: an error)
  wire,            \* the runs of bytes the transport was given for this serve
  body,            \* the request Body: bytes it may still yield, buffered tail
  observed,        \* the bytes the handler has read from the request Body
  request_reads,   \* the length each request Body read returned
  faults,          \* the transport calls that returned an error, in order
  offered,         \* the region of buf each head read was offered, as <<from, to>>
  matched,         \* the number of calls of match_request on the route chain
  other,           \* the locals of the other serve on this Router, set aside
  cur              \* which of the two serves the locals above belong to

vars ==
  << router, registered, pc, reader, buf, pos, req, content_length, response, tx, writer,
     result, reads, invoked, writes, body_reads, wire, body, observed, request_reads, faults,
     offered, matched, other, cur >>

NoResult == [kind |-> "None", err |-> <<>>]
Ok == [kind |-> "Ok", err |-> <<>>]
Io == [kind |-> "Io", err |-> <<>>]
BodyError == [kind |-> "Body", err |-> <<>>]
ProtocolError(e) == [kind |-> "ProtocolError", err |-> e]
\* the unwrap of a None match
Panic == [kind |-> "Panic", err |-> <<>>]

NoParse == PResult("None", "", 0, NoRange, NoRange, <<>>)

\* Body::new(content_length, tail, reader); the reader is the transport
Body_new(cl, tail) == [left |-> cl, tail |-> tail]
NoBody == Body_new(0, <<>>)

\* a serve that has not been called yet
\* the locals of a serve that has not been called, as one value
NotStarted ==
  [pc |-> "build", reader |-> <<>>, buf |-> <<>>, pos |-> 0, req |-> NoParse,
   content_length |-> 0, response |-> NoResponse, tx |-> <<>>, writer |-> <<>>,
   result |-> NoResult, reads |-> <<>>, invoked |-> <<>>, writes |-> <<>>,
   body_reads |-> <<>>, wire |-> <<>>, body |-> NoBody, observed |-> <<>>,
   request_reads |-> <<>>, faults |-> <<>>, offered |-> <<>>, matched |-> 0]

Init ==
  /\ router \in {Router_new(RS) : RS \in StateTypes}
  /\ registered = <<>>
  /\ pc = "build"
  /\ reader = <<>>
  /\ buf = <<>>
  /\ pos = 0
  /\ req = NoParse
  /\ content_length = 0
  /\ response = NoResponse
  /\ tx = <<>>
  /\ writer = <<>>
  /\ result = NoResult
  /\ reads = <<>>
  /\ invoked = <<>>
  /\ writes = <<>>
  /\ body_reads = <<>>
  /\ wire = <<>>
  /\ body = NoBody
  /\ observed = <<>>
  /\ request_reads = <<>>
  /\ faults = <<>>
  /\ offered = <<>>
  /\ matched = 0
  /\ other = NotStarted
  /\ cur = 1

serve_vars ==
  << reader, buf, pos, req, content_length, response, tx, writer, result,
     reads, invoked, writes, body_reads, wire, body, observed, request_reads, faults,
     offered, matched >>

\* what serve leaves alone outside dispatch: the request Body and its log
request_vars == <<body, observed, request_reads>>

(***************************************************************************)
(* Building the Router                                                     *)
(***************************************************************************)
\* the builder calls take the Router by value: no serve holds a reference
Owned == other.pc = "build"

\* router.route(path, route::get(handler)) and the like
Route(path, m, h) ==
  /\ pc = "build"
  /\ Owned
  /\ Len(registered) < MaxRoutes
  /\ IsRouteFor(MethodRoute(m, h), router.RS)
  /\ router' = route(router, path, MethodRoute(m, h))
  /\ registered' = Append(registered, [path |-> path, method |-> m, handler |-> h])
  /\ UNCHANGED <<pc, serve_vars>>
  /\ UNCHANGED <<other, cur>>

\* router.get(path, handler), router.post(path, handler), ...
MethodBuilder(m, path, h) ==
  /\ pc = "build"
  /\ Owned
  /\ Len(registered) < MaxRoutes
  /\ h \in {g \in Handlers : router.RS \in HandlerStates(g)}
  /\ router' = method_route(router, m, path, h)
  /\ registered' = Append(registered, [path |-> path, method |-> m, handler |-> h])
  /\ UNCHANGED <<pc, serve_vars>>
  /\ UNCHANGED <<other, cur>>

\* router.with_state(state): while Untouched only on a Router<(), ..>
WithState(S2) ==
  /\ pc = "build"
  /\ Owned
  /\ router.HasRoute = "HasAnyState" \/ router.RS = "Unit"
  /\ IsRouteFor(router.route, S2)
  /\ router' = with_state(router, S2)
  /\ UNCHANGED <<registered, pc, serve_vars>>
  /\ UNCHANGED <<other, cur>>

(***************************************************************************)
(* Service::serve                                                          *)
(***************************************************************************)
Min(a, b) == IF a < b THEN a ELSE b

\* what a read finds: the bytes available, up to the room offered
ReadLen(src, room) == IF src = <<>> THEN 0 ELSE Min(Len(Head(src)), room)
AfterRead(src, n) ==
  IF n = Len(Head(src)) THEN Tail(src)
  ELSE <<SubSeq(Head(src), n + 1, Len(Head(src)))>> \o Tail(src)

\* Body::read(dst) with room bytes of dst, over the transport src: the
\* buffered tail first, then the transport, never past what is left of
\* content_length; 0 is the end of the body
Body_read(bd, src, room) ==
  LET cap == Min(room, bd.left)
      n == IF cap = 0 THEN 0
           ELSE IF bd.tail # <<>> THEN Min(Len(bd.tail), cap)
           ELSE ReadLen(src, cap)
  IN  IF n = 0 THEN [n |-> 0, bytes |-> <<>>, body |-> bd, src |-> src]
      ELSE IF bd.tail # <<>> THEN
        [n |-> n, bytes |-> SubSeq(bd.tail, 1, n),
         body |-> [left |-> bd.left - n, tail |-> SubSeq(bd.tail, n + 1, Len(bd.tail))],
         src |-> src]
      ELSE
        [n |-> n, bytes |-> SubSeq(Head(src), 1, n),
         body |-> [bd EXCEPT !.left = bd.left - n],
         src |-> AfterRead(src, n)]

\* a tail that runs to the end of the buffer: &buf[body_start..]
BodyTail_to_buffer_end(b, body_start, p) == SubSeq(b, body_start + 1, Len(b))

\* the bytes received after the head: &buf[body_start..pos]
BodyTail(b, body_start, p) == SubSeq(b, body_start + 1, p)

\* a Body that is not given the content length but the buffer's size
RequestBody_unbounded(cl, b, body_start, p) == Body_new(Len(b), BodyTail(b, body_start, p))

\* Body::new(content_length, &buf[body_start..pos], reader)
RequestBody(cl, b, body_start, p) == Body_new(cl, BodyTail(b, body_start, p))

\* a Service implementation for every Router type
IsService_any(self) == TRUE

\* impl Service for Router<S, R, S, HasRoute>: the route state type is the
\* type of the state attached
IsService(self) == self.RS = self.S

\* serve is implemented for Router<S, R, S, HasRoute> only
ServeStart(input) ==
  /\ pc = "build"
  /\ IsService(router)
  /\ pc' = "head"
  /\ reader' = input
  /\ buf' = [i \in 1..BUF_SIZE |-> NUL]
  /\ pos' = 0
  /\ wire' = input
  /\ UNCHANGED << router, registered, req, content_length, response, tx, writer, result,
                  reads, invoked, writes, body_reads, faults, offered, matched, request_vars >>
  /\ UNCHANGED <<other, cur>>

\* a read that is offered the whole buffer again
ReadRoom_whole_buffer(b, p) == Len(b)

\* the region a head read is offered: &mut buf[pos..]
ReadRoom(b, p) == Len(b) - p

\* the bytes handed to the parser: &buf
ParseBytes(b, p) == b

\* a match whose Complete arm goes straight to the response
ParseArm_skips_dispatch(p) ==
  IF p.status = "Complete" THEN [pc |-> "status", result |-> NoResult]
  ELSE IF p.status = "Partial" THEN [pc |-> "head", result |-> NoResult]
  ELSE [pc |-> "done", result |-> ProtocolError(<<"Parser", p.err>>)]

\* a match that reads on after a parse error
ParseArm_reads_on(p) ==
  IF p.status = "Complete" THEN [pc |-> "parsed", result |-> NoResult]
  ELSE [pc |-> "head", result |-> NoResult]

\* the arms of the match on the parse result: where serve goes next
ParseArm(p) ==
  IF p.status = "Complete" THEN [pc |-> "parsed", result |-> NoResult]
  ELSE IF p.status = "Partial" THEN [pc |-> "head", result |-> NoResult]
  ELSE [pc |-> "done", result |-> ProtocolError(<<"Parser", p.err>>)]

\* a closed transport reported as a transport error
ReadZeroArm_error == [pc |-> "done", result |-> Io]

\* if read == 0 { return Ok(()) }
ReadZeroArm == [pc |-> "done", result |-> Ok]

\* .map_err(ServiceError::Io)? on the head read
ReadErrArm == [pc |-> "done", result |-> Io]

\* reader.read(&mut buf[pos..]) fails
HeadReadFail ==
  /\ pc = "head"
  /\ pc' = ReadErrArm.pc
  /\ result' = ReadErrArm.result
  /\ reads' = Append(reads, -1)
  /\ faults' = Append(faults, "read")
  /\ offered' = Append(offered, <<pos, pos + ReadRoom(buf, pos)>>)
  /\ UNCHANGED << router, registered, reader, buf, pos, req, content_length, response, tx,
                  writer, invoked, writes, body_reads >>
  /\ UNCHANGED <<wire, matched, request_vars>>
  /\ UNCHANGED <<other, cur>>

\* one turn of the head loop: read, then parse what the buffer holds
HeadRead ==
  /\ pc = "head"
  /\ LET read == ReadLen(reader, ReadRoom(buf, pos))
     IN  /\ reads' = Append(reads, read)
         /\ offered' = Append(offered, <<pos, pos + ReadRoom(buf, pos)>>)
         /\ IF read = 0
              THEN /\ pc' = ReadZeroArm.pc
                   /\ result' = ReadZeroArm.result
                   /\ UNCHANGED <<reader, buf, pos, req>>
              ELSE /\ reader' = AfterRead(reader, read)
                   /\ buf' = SubSeq(buf, 1, pos) \o SubSeq(Head(reader), 1, read)
                               \o SubSeq(buf, pos + read + 1, BUF_SIZE)
                   /\ pos' = pos + read
                   /\ req' = Parse(ParseBytes(buf', pos'), MAX_HEADERS)
                   /\ pc' = ParseArm(req').pc
                   /\ result' = ParseArm(req').result
  /\ UNCHANGED << router, registered, content_length, response, tx, writer, invoked,
                  writes, body_reads >>
  /\ UNCHANGED <<wire, faults, matched, request_vars>>
  /\ UNCHANGED <<other, cur>>

\* a serve that takes the route chain out of the Router to match it
SharedRef_takes_route(self) == [self EXCEPT !.route = NotFound]

\* &self: serve reads the Router through a shared reference
SharedRef(self) == self

\* a check that lets a method through that Method::new refused
PartsCheck_any_method(url_ok, method_ok) ==
  IF ~url_ok THEN ProtocolError(<<"InvalidUrl">>) ELSE NoResult

\* PathAndQuery::parse(path).map_err(ProtocolError::InvalidUrl)?, then
\* Method::new(method).map_err(ProtocolError::InvalidMethod)?: the error
\* serve returns, if any
PartsCheck(url_ok, method_ok) ==
  IF ~url_ok THEN ProtocolError(<<"InvalidUrl">>)
  ELSE IF ~method_ok THEN ProtocolError(<<"InvalidMethod">>)
  ELSE NoResult

\* from the parsed head to the response: PathAndQuery::parse, Method::new,
\* content_length, match_request(..).unwrap()
Dispatch ==
  /\ pc = "parsed"
  /\ LET paq == PathAndQuery_parse(Slice(buf, req.path))
         method == Method_new(Slice(buf, req.method))
         request == [method |-> method.method, path |-> paq.path]
         m == match_request(router.route, request)
         refused == PartsCheck(paq.ok, method.ok)
     IN  IF refused # NoResult THEN
           /\ pc' = "done"
           /\ result' = refused
           /\ UNCHANGED <<content_length, response, invoked, body, matched>>
         ELSE
           /\ content_length' = content_length_of(buf, req.headers)
           /\ body' = RequestBody(content_length', buf, req.len, pos)
           /\ matched' = matched + 1
           /\ invoked' = invoked \o m.invoked
           /\ IF ~m.matched THEN
                /\ pc' = "done"
                /\ result' = Panic
                /\ response' = m.response
              ELSE IF m.invoked # <<>> /\ m.invoked[1] \in ReadsBody THEN
                \* the handler runs on inside match_request, reading the Body
                /\ pc' = "handler"
                /\ UNCHANGED <<result, response>>
              ELSE
                /\ pc' = "status"
                /\ response' = m.response
                /\ UNCHANGED result
  /\ router' = SharedRef(router)
  /\ UNCHANGED << registered, reader, buf, pos, req, tx, writer, reads, writes,
                  body_reads, wire, observed, request_reads, faults, offered >>
  /\ UNCHANGED <<other, cur>>

\* the invoked handler reads the request Body once more; at the end of the
\* Body it returns and match_request yields its response
HandlerRead ==
  /\ pc = "handler"
  /\ LET r == Body_read(body, reader, HandlerBufSize)
     IN  /\ request_reads' = Append(request_reads, r.n)
         /\ observed' = observed \o r.bytes
         /\ body' = r.body
         /\ reader' = r.src
         /\ IF r.n = 0
              THEN pc' = "status" /\ response' = HandlerResponse(invoked[1])
              ELSE pc' = "handler" /\ UNCHANGED response
  /\ UNCHANGED << router, registered, buf, pos, req, content_length, tx, writer, result,
                  reads, invoked, writes, body_reads, wire, faults, offered, matched >>
  /\ UNCHANGED <<other, cur>>

\* the bytes of the two head writes
StatusWrite(r) == StatusLine(r.status)
\* a blank line of a bare line feed
BlankWrite_bare == <<LF>>
BlankWrite == CRLF

\* a write error that is dropped: serve goes on as if the write was made
WriteErrArm_goes_on(at) ==
  [pc |-> IF at = "status" THEN "blank" ELSE "body", result |-> NoResult]

\* .map_err(ServiceError::Io)? on the write made at position at
WriteErrArm(at) == [pc |-> "done", result |-> Io]

\* a write to the writer fails
WriteFail ==
  /\ pc \in {"status", "blank", "chunk"}
  /\ pc' = WriteErrArm(pc).pc
  /\ result' = WriteErrArm(pc).result
  /\ faults' = Append(faults, pc)
  /\ UNCHANGED << router, registered, reader, buf, pos, req, content_length, response, tx,
                  writer, reads, invoked, writes, body_reads >>
  /\ UNCHANGED <<wire, offered, matched, request_vars>>
  /\ UNCHANGED <<other, cur>>

\* write!(writer, "HTTP/1.1 {}\r\n", response.status_code())
WriteStatus ==
  /\ pc = "status"
  /\ writer' = writer \o StatusWrite(response)
  /\ writes' = Append(writes, StatusWrite(response))
  /\ pc' = "blank"
  /\ UNCHANGED << router, registered, reader, buf, pos, req, content_length, response, tx,
                  result, reads, invoked, body_reads >>
  /\ UNCHANGED <<wire, faults, offered, matched, request_vars>>
  /\ UNCHANGED <<other, cur>>

\* writer.write_all(b"\r\n")
WriteBlank ==
  /\ pc = "blank"
  /\ writer' = writer \o BlankWrite
  /\ writes' = Append(writes, BlankWrite)
  /\ pc' = "body"
  /\ UNCHANGED << router, registered, reader, buf, pos, req, content_length, response, tx,
                  result, reads, invoked, body_reads >>
  /\ UNCHANGED <<wire, faults, offered, matched, request_vars>>
  /\ UNCHANGED <<other, cur>>

\* a response body error reported as a transport error
BodyErrArm_as_io == [pc |-> "done", result |-> Io]

\* .map_err(ServiceError::Body)? on the response body read
BodyErrArm == [pc |-> "done", result |-> BodyError]

\* body.read(&mut buf) fails
BodyReadFail ==
  /\ pc = "body"
  /\ pc' = BodyErrArm.pc
  /\ result' = BodyErrArm.result
  /\ body_reads' = Append(body_reads, -1)
  /\ UNCHANGED << router, registered, reader, buf, pos, req, content_length, response, tx,
                  writer, reads, invoked, writes >>
  /\ UNCHANGED <<wire, faults, offered, matched, request_vars>>
  /\ UNCHANGED <<other, cur>>

\* a body loop without the break
BodyArm_no_break(len) == [pc |-> "chunk", result |-> NoResult]

\* if len == 0 { break }: where the body loop goes after a read
BodyArm(len) ==
  IF len = 0 THEN [pc |-> "done", result |-> Ok] ELSE [pc |-> "chunk", result |-> NoResult]

\* let len = body.read(&mut buf) with buf = [0; 1024]
BodyRead ==
  /\ pc = "body"
  /\ LET len == ReadLen(response.body, TX_BUF_SIZE)
     IN  /\ body_reads' = Append(body_reads, len)
         /\ pc' = BodyArm(len).pc
         /\ result' = BodyArm(len).result
         /\ IF len = 0
              THEN tx' = <<>> /\ UNCHANGED response
              ELSE /\ tx' = SubSeq(Head(response.body), 1, len)
                   /\ response' = [response EXCEPT !.body = AfterRead(response.body, len)]
  /\ UNCHANGED << router, registered, reader, buf, pos, req, content_length, writer, reads,
                  invoked, writes >>
  /\ UNCHANGED <<wire, faults, offered, matched, request_vars>>
  /\ UNCHANGED <<other, cur>>

\* the bytes of a chunk write: &buf[..len]
ChunkWrite(chunk) == chunk

\* writer.write_all(&buf[..len])
WriteChunk ==
  /\ pc = "chunk"
  /\ writer' = writer \o ChunkWrite(tx)
  /\ writes' = Append(writes, ChunkWrite(tx))
  /\ pc' = "body"
  /\ UNCHANGED << router, registered, reader, buf, pos, req, content_length, response, tx,
                  result, reads, invoked, body_reads >>
  /\ UNCHANGED <<wire, faults, offered, matched, request_vars>>
  /\ UNCHANGED <<other, cur>>

Next ==
  \/ \E key \in RouteKeys, h \in Handlers : Route(key[2], key[1], h)
  \/ \E key \in RouteKeys, h \in Handlers : MethodBuilder(key[1], key[2], h)
  \/ \E S2 \in StateTypes : WithState(S2)
  \/ \E input \in Inputs : ServeStart(input)
  \/ HeadReadFail
  \/ HeadRead
  \/ Dispatch
  \/ HandlerRead
  \/ WriteFail
  \/ WriteStatus
  \/ WriteBlank
  \/ BodyReadFail
  \/ BodyRead
  \/ WriteChunk

Spec == Init /\ [][Next]_vars

(***************************************************************************)
(* Two serves on one Router, each with its own reader and writer. The      *)
(* locals of the serve that is not running are set aside in other; the     *)
(* executor goes from one serve to the other where serve awaits the        *)
(* transport or the handler, before it is called and after it returned.    *)
(***************************************************************************)
\* the positions at which serve awaits
Suspended == {"head", "handler", "status", "blank", "body", "chunk"}

\* the locals of the serve that is running
Current ==
  [pc |-> pc, reader |-> reader, buf |-> buf, pos |-> pos, req |-> req,
   content_length |-> content_length, response |-> response, tx |-> tx,
   writer |-> writer, result |-> result, reads |-> reads, invoked |-> invoked,
   writes |-> writes, body_reads |-> body_reads, wire |-> wire, body |-> body,
   observed |-> observed, request_reads |-> request_reads, faults |-> faults,
   offered |-> offered, matched |-> matched]

Switch ==
  /\ pc \in Suspended \cup {"done"} \/ (pc = "build" /\ other.pc # "build")
  /\ other' = Current
  /\ cur' = 3 - cur
  /\ pc' = other.pc
  /\ reader' = other.reader
  /\ buf' = other.buf
  /\ pos' = other.pos
  /\ req' = other.req
  /\ content_length' = other.content_length
  /\ response' = other.response
  /\ tx' = other.tx
  /\ writer' = other.writer
  /\ result' = other.result
  /\ reads' = other.reads
  /\ invoked' = other.invoked
  /\ writes' = other.writes
  /\ body_reads' = other.body_reads
  /\ wire' = other.wire
  /\ body' = other.body
  /\ observed' = other.observed
  /\ request_reads' = other.request_reads
  /\ faults' = other.faults
  /\ offered' = other.offered
  /\ matched' = other.matched
  /\ UNCHANGED <<router, registered>>

\* the routes and the inputs of the Routers two serves run on
PairRoutes == 2
PairKeys == {<<GET, PathPing, "H2">>, <<POST, PathX, "H1">>}
PairInputs == {<<PingReq>>, <<PostHead \o B(<<"a">>), B(<<"b", "c", "d">>)>>}

PairNext ==
  \/ \E key \in PairKeys :
       Len(registered) < PairRoutes /\ Route(key[2], key[1], key[3])
  \/ \E S2 \in StateTypes : WithState(S2)
  \/ \E input \in PairInputs : ServeStart(input)
  \/ HeadReadFail
  \/ HeadRead
  \/ Dispatch
  \/ HandlerRead
  \/ WriteFail
  \/ WriteStatus
  \/ WriteBlank
  \/ BodyReadFail
  \/ BodyRead
  \/ WriteChunk
  \/ Switch

PairSpec == Init /\ [][PairNext]_vars

\* a read the head loop awaits returns, with bytes, with zero or with an error
ReadReturns == HeadReadFail \/ HeadRead

\* serve on every input, of a Router without a route or with the one route
LiveNext ==
  \/ registered = <<>> /\ Route(PathX, POST, "H1")
  \/ \E input \in Inputs : ServeStart(input)
  \/ HeadReadFail
  \/ HeadRead
  \/ Dispatch
  \/ HandlerRead
  \/ WriteFail
  \/ WriteStatus
  \/ WriteBlank
  \/ BodyReadFail
  \/ BodyRead
  \/ WriteChunk

\* the behaviours in which the transport answers every read of the head loop
LiveSpec == Init /\ [][LiveNext]_vars /\ WF_vars(ReadReturns)


(***************************************************************************)
(* Vocabulary of the properties                                            *)
(***************************************************************************)
RECURSIVE Flat(_)
\* the bytes of a sequence of byte runs
Flat(runs) == IF runs = <<>> THEN <<>> ELSE Head(runs) \o Flat(Tail(runs))

\* every byte the transport delivers to this serve, in order
Stream == Flat(wire)

\* the requests the route chain is asked about
Requests ==
  [method : {GET, POST, B(<<"P", "U", "T">>)}, path : {PathPing, PathX, PathNope}]

\* the calls registering a route that reports a match for a request
MatchingCalls(request) ==
  {i \in 1..Len(registered) :
     registered[i].path = request.path /\ registered[i].method = request.method}

Latest(calls) == CHOOSE i \in calls : \A j \in calls : j <= i

\* serve has called match_request and taken its response
Dispatched == response.status # 0

\* the request serve has dispatched
ServedRequest ==
  [method |-> Slice(buf, req.method), path |-> Slice(buf, req.path)]

RECURSIVE Innermost(_)
\* the node a route chain ends in
Innermost(r) == IF r.kind = "Fallback" THEN Innermost(r.fallback) ELSE r

(***************************************************************************)
(* C1  Last-registered-wins: of the registered routes that match a         *)
(* request, match_request invokes the handler of the one registered        *)
(* latest and no other; this holds of every Router the builder reaches,    *)
(* for every request, and of the handler serve invokes.                    *)
(***************************************************************************)
C1_LastRegisteredWins ==
  /\ pc = "build" =>
       \A request \in Requests :
         LET m == match_request(router.route, request)
             calls == MatchingCalls(request)
         IN  IF calls = {} THEN m.invoked = <<>>
             ELSE m.invoked = <<registered[Latest(calls)].handler>>
  /\ (Dispatched /\ MatchingCalls(ServedRequest) # {}) =>
       invoked = <<registered[Latest(MatchingCalls(ServedRequest))].handler>>

\* two routes registered for one path and method with different handlers,
\* and a request for them served by the later handler
C1_Witness ==
  /\ Dispatched
  /\ Len(registered) = 2
  /\ registered[1].path = registered[2].path
  /\ registered[1].method = registered[2].method
  /\ registered[1].handler # registered[2].handler
  /\ MatchingCalls(ServedRequest) = {1, 2}
  /\ invoked = <<registered[2].handler>>

(***************************************************************************)
(* C2  Every Router reachable from Router::new() ends its chain in the     *)
(* NotFound terminal, so match_request answers every request: a request    *)
(* no registered route matches gets the not-found response, and serve's    *)
(* unwrap never meets a missing match.                                     *)
(***************************************************************************)
C2_NotFoundTerminal ==
  /\ Innermost(router.route) = NotFound
  /\ pc = "build" =>
       \A request \in Requests :
         LET m == match_request(router.route, request)
         IN  /\ m.matched
             /\ MatchingCalls(request) = {} => m.response = NotFoundResponse
  /\ result # Panic
  /\ (Dispatched /\ MatchingCalls(ServedRequest) = {}) =>
       (invoked = <<>> /\ response.status = NotFoundResponse.status)

\* a served request that no registered route matches, answered not found,
\* on a Router that has routes and a state attached
C2_Witness ==
  /\ Dispatched
  /\ Len(registered) = MaxRoutes
  /\ router.S = "App"
  /\ MatchingCalls(ServedRequest) = {}
  /\ pc = "done"
  /\ result = Ok
  /\ writer = StatusLine(404) \o CRLF

(***************************************************************************)
(* C3  (as claimed) A valid head that arrives in several reads parses to   *)
(* what the contiguous bytes parse to, and a read that has delivered only  *)
(* a proper prefix of it is Partial, never Malformed.                      *)
(***************************************************************************)
C3_SplitReadsParseAsContiguous ==
  LET whole == Parse(Stream, MAX_HEADERS)
  IN  (req.status # "None" /\ whole.status = "Complete") =>
        IF pos < whole.len THEN req.status = "Partial" ELSE req = whole

(***************************************************************************)
(* C4  (as claimed) When the buffer is full and no complete head has been  *)
(* parsed, serve ends with a protocol error (the transport not failing).   *)
(***************************************************************************)
C4_HeadTooLarge ==
  (pc = "done" /\ pos = BUF_SIZE /\ req.status = "Partial" /\ result # Io) =>
    result.kind = "ProtocolError"

(***************************************************************************)
(* C5  When the head received has more header lines than MAX_HEADERS       *)
(* (counted by a parse with room for any number), serve has returned a     *)
(* protocol error, has invoked no handler and has written nothing.         *)
(***************************************************************************)
\* the line ends received so far
LineEnds == Cardinality({i \in 1..pos : buf[i] = LF})

\* the bytes received hold a complete head of more than MAX_HEADERS header
\* lines: that takes the request line, the header lines and a blank line
HeadOverMaxHeaders ==
  /\ LineEnds >= MAX_HEADERS + 3
  /\ LET unbounded == Parse(buf, BUF_SIZE)
     IN  unbounded.status = "Complete" /\ Len(unbounded.headers) > MAX_HEADERS

C5_TooManyHeadersIsProtocolError ==
  LET refused ==
        /\ pc = "done"
        /\ result.kind = "ProtocolError"
        /\ ~Dispatched
        /\ invoked = <<>>
        /\ writer = <<>>
  IN  req.status # "None" => (refused \/ ~HeadOverMaxHeaders)

\* a complete head of MAX_HEADERS + 1 headers has been read and refused
C5_Witness ==
  /\ Stream = Many(MAX_HEADERS + 1)
  /\ pos = Len(Stream)
  /\ result = ProtocolError(<<"Parser", "TooManyHeaders">>)

(***************************************************************************)
(* C6  When a head read returns zero bytes, serve has returned Ok(()),     *)
(* no handler has been invoked and nothing has been written.               *)
(***************************************************************************)
C6_ZeroReadEndsCleanly ==
  (reads # <<>> /\ reads[Len(reads)] = 0) =>
    /\ pc = "done"
    /\ result = Ok
    /\ invoked = <<>>
    /\ writer = <<>>
    /\ writes = <<>>

\* the transport closed before any byte arrived
C6_Witness == reads = <<0>> /\ pos = 0 /\ pc = "done"

(***************************************************************************)
(* C7  When the parse of the accumulated bytes is Malformed, serve has     *)
(* returned the parser's protocol error; no read follows that parse, no    *)
(* handler is invoked and no byte is written.                              *)
(***************************************************************************)
C7_MalformedFailsAtOnce ==
  /\ [](req.status = "Err" =>
          /\ pc = "done"
          /\ result = ProtocolError(<<"Parser", req.err>>)
          /\ invoked = <<>>
          /\ writer = <<>>
          /\ writes = <<>>)
  /\ [][req.status = "Err" => (reads' = reads /\ reader' = reader)]_vars

\* a malformed head (a bad version) has been read and refused
C7_Witness ==
  /\ req.status = "Err"
  /\ req.err = "Version"
  /\ Len(reads) = 1
  /\ pc = "done"
(***************************************************************************)
(* C8  When serve has dispatched a request and returned Ok(()), the bytes  *)
(* written are "HTTP/1.1 ", the status code in decimal, CR LF, CR LF and   *)
(* then the whole response body, nothing else; GET /ping with Host: x on   *)
(* a Router of the one route GET /ping -> "pong" writes exactly            *)
(* "HTTP/1.1 200\r\n\r\npong".                                             *)
(***************************************************************************)
\* the response the dispatch of this serve produced, as the handler made it
Produced ==
  IF invoked = <<>> THEN NotFoundResponse ELSE HandlerResponse(invoked[1])

\* the decimal text of the status codes responses carry
CodeText(code) ==
  IF code = 200 THEN B(<<"2", "0", "0">>)
  ELSE IF code = 201 THEN B(<<"2", "0", "1">>)
  ELSE B(<<"4", "0", "4">>)

PongOutput ==
  B(<<"H", "T", "T", "P", "/", "1", ".", "1", " ", "2", "0", "0">>) \o <<13, 10, 13, 10>>
    \o B(<<"p", "o", "n", "g">>)

C8_ResponseBytes ==
  (pc = "done" /\ result = Ok /\ Dispatched) =>
    /\ writer = B(<<"H", "T", "T", "P", "/", "1", ".", "1", " ">>)
                  \o CodeText(Produced.status) \o <<13, 10>> \o <<13, 10>>
                  \o Flat(Produced.body)
    /\ (registered = <<[path |-> PathPing, method |-> GET, handler |-> "H1"]>>
          /\ Stream = PingReq) => writer = PongOutput

\* the ping request answered in full by the one-route Router
C8_Witness ==
  /\ pc = "done"
  /\ result = Ok
  /\ registered = <<[path |-> PathPing, method |-> GET, handler |-> "H1"]>>
  /\ Stream = PingReq
  /\ writer = PongOutput

(***************************************************************************)
(* C9  The body loop writes every chunk it read, in read order and none    *)
(* empty, each of at most TX_BUF_SIZE bytes; what has been written and     *)
(* read plus what the producer still holds is the body the producer        *)
(* yields; the first zero-length read is the last read, no write follows   *)
(* it and serve returns Ok(()).                                            *)
(***************************************************************************)
\* the body chunks written so far, as one run of bytes
ChunksWritten ==
  IF Len(writes) <= 2 THEN <<>>
  ELSE SubSeq(writer, Len(writes[1]) + Len(writes[2]) + 1, Len(writer))

C9_BodyStreaming ==
  Dispatched =>
    /\ \A i \in 1..Len(body_reads) :
         /\ body_reads[i] <= TX_BUF_SIZE
         /\ body_reads[i] <= 0 => i = Len(body_reads)
    /\ \A i \in 3..Len(writes) :
         /\ writes[i] # <<>>
         /\ Len(writes[i]) = body_reads[i - 2]
    /\ pc \in {"body", "done"} /\ result.kind \in {"None", "Ok", "Body"} =>
         /\ Len(writes) = 2 + Cardinality({i \in 1..Len(body_reads) : body_reads[i] > 0})
         /\ ChunksWritten \o Flat(response.body) = Flat(Produced.body)
    /\ (body_reads # <<>> /\ body_reads[Len(body_reads)] = 0) =>
         /\ pc = "done"
         /\ result = Ok
         /\ response.body = <<>>
         /\ ChunksWritten = Flat(Produced.body)

\* a body longer than the transmit buffer written in two chunks
C9_Witness ==
  /\ body_reads = <<TX_BUF_SIZE, 1, 0>>
  /\ Len(writes) = 4
  /\ Len(writes[3]) = TX_BUF_SIZE
  /\ pc = "done"

(***************************************************************************)
(* C10  The request body length serve computes is the value of the first   *)
(* header, in wire order, whose name is Content-Length in any letter       *)
(* case, when that value parses as an unsigned number; with no such        *)
(* header, or when that first value does not parse, it is 0 and serve      *)
(* goes on without an error, whatever later headers say.                   *)
(***************************************************************************)
\* the headers of the parsed head, in wire order, as (name, value) bytes
WireHeaders ==
  [i \in 1..Len(req.headers) |->
     [name |-> Slice(buf, req.headers[i].name),
      value |-> Slice(buf, req.headers[i].value)]]

\* the name with its capital letters made small
Lowered(name) == [i \in 1..Len(name) |-> IF name[i] \in 65..90 THEN name[i] + 32 ELSE name[i]]

LengthHeaders == {i \in 1..Len(WireHeaders) : Lowered(WireHeaders[i].name) = LowerName}

C10_ContentLength ==
  Dispatched =>
    IF LengthHeaders = {} THEN content_length = 0
    ELSE LET first == CHOOSE i \in LengthHeaders : \A j \in LengthHeaders : i <= j
             value == ParseUsize(WireHeaders[first].value)
         IN  content_length = IF value.ok THEN value.value ELSE 0

\* a first Content-Length that does not parse hides a later one that does
C10_Witness ==
  /\ Dispatched
  /\ Cardinality(LengthHeaders) = 2
  /\ ~ParseUsize(WireHeaders[1].value).ok
  /\ ParseUsize(WireHeaders[2].value).ok
  /\ ParseUsize(WireHeaders[2].value).value = 3
  /\ content_length = 0
  /\ result # ProtocolError(<<"InvalidUrl">>)

(***************************************************************************)
(* C11  The request Body never yields more than content_length bytes:      *)
(* what it has yielded and what it may still yield add up to               *)
(* content_length; once the handler has read it to its end it has yielded  *)
(* content_length bytes when the peer sent that many after the head, and   *)
(* all the peer sent when it sent fewer (the transport then closed); what  *)
(* was sent beyond content_length is not yielded, and the transport was    *)
(* not asked for it.                                                       *)
(***************************************************************************)
\* the bytes the peer sent after the head
AfterHead == SubSeq(Stream, req.len + 1, Len(Stream))

\* the bytes the transport has handed over, to the head loop and the Body
TakenFromTransport == Len(Stream) - Len(Flat(reader))

\* the handler has read the Body up to its end
BodyReadToEnd == request_reads # <<>> /\ request_reads[Len(request_reads)] = 0

C11_BodyBounded ==
  /\ Len(observed) <= content_length
  /\ body # NoBody => Len(observed) + body.left = content_length
  /\ BodyReadToEnd =>
       /\ Len(observed) = Min(content_length, Len(AfterHead))
       /\ TakenFromTransport = IF pos > req.len + Len(observed)
                                 THEN pos ELSE req.len + Len(observed)
       /\ Len(AfterHead) < content_length => reader = <<>>

\* content length 3, one byte received with the head and three more in the
\* transport: three bytes yielded, the fourth left in the transport
C11_Witness ==
  /\ BodyReadToEnd
  /\ content_length = 3
  /\ Len(AfterHead) = 4
  /\ pos = req.len + 1
  /\ Len(observed) = 3
  /\ Len(Flat(reader)) = 1

(***************************************************************************)
(* C12  What the handler reads from the request Body is, at every moment,  *)
(* a prefix of the bytes that follow the head in the stream, and at the    *)
(* end of the Body it is the first content_length of them (all of them     *)
(* when the peer sent fewer), however the reads split them between the     *)
(* buffer and the transport; POST /x with Content-Length: 3 and abc gives  *)
(* the handler exactly abc.                                                *)
(***************************************************************************)
C12_BodyBytesInOrder ==
  /\ Len(observed) <= Len(AfterHead)
  /\ observed = SubSeq(AfterHead, 1, Len(observed))
  /\ BodyReadToEnd =>
       observed = SubSeq(AfterHead, 1, Min(content_length, Len(AfterHead)))
  /\ (BodyReadToEnd /\ Stream = PostHead \o Abc) => observed = Abc

\* the head in one read and abc in the next: the handler has read abc
C12_Witness ==
  /\ wire = <<PostHead, Abc>>
  /\ BodyReadToEnd
  /\ request_reads = <<2, 1, 0>>
  /\ observed = Abc

(***************************************************************************)
(* C13  Once a call on the reader or the writer has returned an error      *)
(* (the head read, the status line write, the blank line write, a body     *)
(* chunk write), serve has returned ServiceError::Io, and no read or       *)
(* write on the transport follows: the failed call is not tried again.     *)
(***************************************************************************)
C13_TransportErrorIsFatal ==
  /\ [](faults # <<>> => (pc = "done" /\ result = Io /\ Len(faults) = 1))
  /\ [][faults # <<>> =>
          /\ reader' = reader /\ reads' = reads /\ request_reads' = request_reads
          /\ writer' = writer /\ writes' = writes /\ faults' = faults]_vars

\* the write of a body chunk failed after the head and one chunk went out
C13_Witness ==
  /\ faults = <<"chunk">>
  /\ Len(writes) = 3
  /\ result = Io
  /\ pc = "done"

(***************************************************************************)
(* C14  Once a read of the response body has returned an error, serve has  *)
(* returned ServiceError::Body, which is neither the transport error nor   *)
(* a protocol error; the status line and the blank line were written       *)
(* before it, every chunk read before it was written, and nothing is       *)
(* written after it.                                                       *)
(***************************************************************************)
\* a read of the response body has returned an error
BodyFailed == \E i \in 1..Len(body_reads) : body_reads[i] < 0

C14_BodyErrorIsDistinct ==
  /\ [](BodyFailed =>
          /\ pc = "done"
          /\ result = BodyError
          /\ result.kind \notin {"Io", "ProtocolError", "Ok"}
          /\ faults = <<>>
          /\ Len(writes) >= 2
          /\ writes[1] = StatusLine(Produced.status)
          /\ writes[2] = CRLF
          /\ body_reads[Len(body_reads)] < 0
          /\ \A i \in 1..(Len(body_reads) - 1) :
               body_reads[i] > 0 /\ Len(writes[i + 2]) = body_reads[i]
          /\ Len(writes) = Len(body_reads) + 1
          /\ ChunksWritten \o Flat(response.body) = Flat(Produced.body))
  /\ [][BodyFailed => (writer' = writer /\ writes' = writes)]_vars

\* the response body failed after its first chunk was read and written
C14_Witness ==
  /\ body_reads = <<TX_BUF_SIZE, -1>>
  /\ Len(writes) = 3
  /\ result = BodyError
  /\ pc = "done"

(***************************************************************************)
(* C15  A Router that is being served has the route state type of the      *)
(* state attached to it, holds a value of that type, and every route of    *)
(* it is a route for that type; so a Router from Router::new() with a      *)
(* route whose handler needs the application state is served only with     *)
(* that state attached by with_state, and the handler serve invokes is     *)
(* one for the state the Router holds.                                     *)
(***************************************************************************)
\* a registered handler that is no handler for the unit state
NeedsAppState ==
  \E i \in 1..Len(registered) : "Unit" \notin HandlerStates(registered[i].handler)

C15_ServeNeedsMatchingState ==
  /\ pc # "build" =>
       /\ router.RS = router.S
       /\ router.state = StateValue(router.S)
       /\ IsRouteFor(router.route, router.S)
  /\ (pc # "build" /\ NeedsAppState) =>
       (router.state = StateValue("App") /\ router.HasRoute = "HasAnyState")
  /\ \A i \in 1..Len(invoked) : router.S \in HandlerStates(invoked[i])

\* a handler that needs the application state, invoked by a serve of a
\* Router that with_state gave the state
C15_Witness ==
  /\ NeedsAppState
  /\ invoked = <<"H2">>
  /\ router.state = StateValue("App")
  /\ pc = "done"

(***************************************************************************)
(* C17  When the head has parsed completely and serve has gone on from     *)
(* it: a request target that PathAndQuery::parse refuses makes serve       *)
(* return ProtocolError InvalidUrl, and otherwise a method that            *)
(* Method::new refuses makes it return ProtocolError InvalidMethod; both   *)
(* differ from the transport error, and in both cases no handler has been  *)
(* invoked, no Body built and no byte written. With both accepted serve    *)
(* returns neither error.                                                  *)
(***************************************************************************)
\* serve has left the head loop with a complete head and gone past its checks
PastParts == req.status = "Complete" /\ pc \notin {"head", "parsed"}

\* serve has returned the error e before the dispatch
RefusedWith(e) ==
  /\ pc = "done"
  /\ result = ProtocolError(<<e>>)
  /\ result.kind # Io.kind
  /\ ~Dispatched
  /\ invoked = <<>>
  /\ body = NoBody
  /\ writer = <<>>
  /\ writes = <<>>

C17_InvalidPartsRefused ==
  PastParts =>
    IF ~PathAndQuery_parse(Slice(buf, req.path)).ok THEN RefusedWith("InvalidUrl")
    ELSE IF ~Method_new(Slice(buf, req.method)).ok THEN RefusedWith("InvalidMethod")
    ELSE result.kind # "ProtocolError"

\* a complete head with the method BREW and a good target, refused
C17_Witness ==
  /\ PastParts
  /\ PathAndQuery_parse(Slice(buf, req.path)).ok
  /\ ~Method_new(Slice(buf, req.method)).ok
  /\ result = ProtocolError(<<"InvalidMethod">>)
  /\ Len(registered) = MaxRoutes

(***************************************************************************)
(* C18  A route() or per-method call leaves the state and the state types  *)
(* as they were and makes the route chain a Fallback of the new Path       *)
(* route to the whole previous chain; a with_state call changes the state  *)
(* and its types only: the route chain is the same, and so is the answer   *)
(* of match_request to every request.                                      *)
(***************************************************************************)
\* the step registers a route
RouteStep == registered' # registered

\* the step attaches a state
StateStep == registered' = registered /\ router' # router

C18_BuilderFrame ==
  [][/\ RouteStep =>
          LET new == registered'[Len(registered')]
          IN  /\ registered' = Append(registered, new)
              /\ router'.state = router.state
              /\ router'.RS = router.RS
              /\ router'.S = router.S
              /\ router'.route.kind = "Fallback"
              /\ router'.route.route = Path(new.path, MethodRoute(new.method, new.handler))
              /\ router'.route.fallback = router.route
     /\ StateStep =>
          /\ router'.route = router.route
          /\ router'.state = StateValue(router'.S)
          /\ \A request \in Requests :
               match_request(router'.route, request) = match_request(router.route, request)
    ]_vars

\* a Router that was given a route, then the application state, then a
\* route whose handler needs that state
C18_Witness ==
  /\ pc = "build"
  /\ Len(registered) = 2
  /\ registered[1].handler = "H1"
  /\ registered[2].handler = "H2"
  /\ router.RS = "App"
  /\ router.state = StateValue("App")
  /\ router.route.fallback.fallback = NotFound

(***************************************************************************)
(* C19  In the head loop pos stays within 0..BUF_SIZE and is the sum of    *)
(* what the reads returned; each read is offered buf[pos..], the unfilled  *)
(* suffix, and returns no more than that; a read either ends the loop or   *)
(* makes pos larger, so there are at most BUF_SIZE reads that return       *)
(* bytes; and when the transport answers every read, the head loop ends.   *)
(***************************************************************************)
RECURSIVE Filled(_)
\* the bytes a sequence of head reads put into the buffer
Filled(rs) ==
  IF rs = <<>> THEN 0
  ELSE Filled(SubSeq(rs, 1, Len(rs) - 1))
         + (IF rs[Len(rs)] > 0 THEN rs[Len(rs)] ELSE 0)

C19_HeadLoopBounded ==
  /\ [](/\ pos \in 0..BUF_SIZE
        /\ pos = Filled(reads)
        /\ Len(offered) = Len(reads)
        /\ \A i \in 1..Len(offered) :
             /\ offered[i] = <<Filled(SubSeq(reads, 1, i - 1)), BUF_SIZE>>
             /\ reads[i] <= offered[i][2] - offered[i][1]
        /\ Cardinality({i \in 1..Len(reads) : reads[i] > 0}) <= pos)
  /\ [][reads' # reads => (pc' # "head" \/ pos' > pos)]_vars
  /\ (pc = "head" ~> pc # "head")

\* the buffer filled by one read; the next read was offered the empty rest
\* of it and ended the loop
C19_Witness ==
  /\ reads = <<BUF_SIZE, 0>>
  /\ offered = <<(<<0, BUF_SIZE>>), (<<BUF_SIZE, BUF_SIZE>>)>>
  /\ pos = BUF_SIZE
  /\ pc = "done"

(***************************************************************************)
(* C20  In a run of serve match_request is called at most once, and once   *)
(* exactly when serve has gone on from a complete head whose target and    *)
(* method were accepted; nothing is written before that call has given     *)
(* the response, and the first write is the status line of that response;  *)
(* serve moves through Awaiting-Head, Parsed, Dispatch, Respond-Head,      *)
(* Respond-Body and Done in this order only, one phase at a time or        *)
(* straight to Done.                                                       *)
(***************************************************************************)
\* the phase serve is in: 1 Awaiting-Head, 2 Parsed, 3 Dispatch (a handler
\* running inside match_request), 4 Respond-Head, 5 Respond-Body, 6 Done;
\* 0 before serve is called
PhaseOf(at) ==
  CASE at = "build" -> 0
    [] at = "head" -> 1
    [] at = "parsed" -> 2
    [] at = "handler" -> 3
    [] at \in {"status", "blank"} -> 4
    [] at \in {"body", "chunk"} -> 5
    [] at = "done" -> 6

\* the target and the method of the parsed head are accepted
PartsAccepted ==
  /\ PathAndQuery_parse(Slice(buf, req.path)).ok
  /\ Method_new(Slice(buf, req.method)).ok

C20_PhasesInOrder ==
  /\ [](/\ matched \in {0, 1}
        /\ matched = 1 <=> (PastParts /\ PartsAccepted)
        /\ Dispatched => matched = 1
        /\ writes # <<>> =>
             /\ Dispatched
             /\ PhaseOf(pc) >= 4
             /\ writes[1] = StatusLine(response.status)
        /\ writer = Flat(writes)
        /\ PhaseOf(pc) \in {4, 5} => Dispatched)
  /\ [][/\ PhaseOf(pc') >= PhaseOf(pc)
        /\ \/ PhaseOf(pc') \in {PhaseOf(pc), PhaseOf(pc) + 1, 6}
           \/ pc = "parsed" /\ pc' = "status" /\ matched' = matched + 1
        /\ matched' # matched => (pc = "parsed" /\ matched' = matched + 1)
        /\ response' # response => PhaseOf(pc) \in {2, 3, 5}
        /\ writes' # writes => PhaseOf(pc) \in {4, 5}
       ]_vars

\* a serve that went through every phase: a handler that read the request
\* Body, the status line, the blank line, a body chunk, Ok(())
C20_Witness ==
  /\ pc = "done"
  /\ result = Ok
  /\ matched = 1
  /\ BodyReadToEnd
  /\ observed # <<>>
  /\ Len(writes) = 3
(***************************************************************************)
(* A serve run by itself, as a function of the Router, of what the         *)
(* transport delivers and of where the transport fails.                    *)
(***************************************************************************)
\* the head loop on the reader rd; fail counts the reads that return before
\* one fails, -1 when none fails
RECURSIVE HeadLoop(_, _, _, _)
HeadLoop(rd, b, p, fail) ==
  IF fail = 0 THEN [pc |-> ReadErrArm.pc, result |-> ReadErrArm.result, buf |-> b,
                    pos |-> p, req |-> NoParse]
  ELSE
    LET read == ReadLen(rd, ReadRoom(b, p))
        b2 == SubSeq(b, 1, p) \o SubSeq(Head(rd), 1, read) \o SubSeq(b, p + read + 1, BUF_SIZE)
        parsed == Parse(ParseBytes(b2, p + read), MAX_HEADERS)
    IN  IF read = 0 THEN [pc |-> ReadZeroArm.pc, result |-> ReadZeroArm.result, buf |-> b,
                          pos |-> p, req |-> NoParse]
        ELSE IF ParseArm(parsed).pc = "head"
          THEN HeadLoop(AfterRead(rd, read), b2, p + read, IF fail > 0 THEN fail - 1 ELSE fail)
        ELSE [pc |-> ParseArm(parsed).pc, result |-> ParseArm(parsed).result, buf |-> b2,
              pos |-> p + read, req |-> parsed]

\* the chunks the body loop writes for the response body src
RECURSIVE Chunks(_)
Chunks(src) ==
  LET len == ReadLen(src, TX_BUF_SIZE)
  IN  IF BodyArm(len).pc = "done" THEN <<>>
      ELSE <<ChunkWrite(SubSeq(Head(src), 1, len))>> \o Chunks(AfterRead(src, len))

\* the writes serve makes for the response r
ResponseWrites(r) == <<StatusWrite(r), BlankWrite>> \o Chunks(r.body)

\* where the transport failed in the serve with the locals l: the reads the
\* head loop made before one failed, the writes made before one failed, the
\* body reads made before one failed; -1 for what did not fail
Schedule(l) ==
  [head |-> IF l.faults # <<>> /\ l.faults[1] = "read" THEN Len(l.reads) - 1 ELSE -1,
   write |-> IF l.faults # <<>> /\ l.faults[1] # "read" THEN Len(l.writes) ELSE -1,
   body |-> IF l.body_reads # <<>> /\ l.body_reads[Len(l.body_reads)] = -1
              THEN Len(l.body_reads) - 1 ELSE -1]

\* what serve returns and what it has written
Outcome(res, out) == [result |-> res, writer |-> out]

Alone(self, input, sched) ==
  LET h == HeadLoop(input, [i \in 1..BUF_SIZE |-> NUL], 0, sched.head)
      paq == PathAndQuery_parse(Slice(h.buf, h.req.path))
      method == Method_new(Slice(h.buf, h.req.method))
      m == match_request(self.route, [method |-> method.method, path |-> paq.path])
      all == ResponseWrites(m.response)
  IN  IF h.pc = "done" THEN Outcome(h.result, <<>>)
      ELSE IF PartsCheck(paq.ok, method.ok) # NoResult
        THEN Outcome(PartsCheck(paq.ok, method.ok), <<>>)
      ELSE IF ~m.matched THEN Outcome(Panic, <<>>)
      ELSE IF sched.write >= 0
        THEN Outcome(WriteErrArm("chunk").result, Flat(SubSeq(all, 1, sched.write)))
      ELSE IF sched.body >= 0
        THEN Outcome(BodyErrArm.result, Flat(SubSeq(all, 1, 2 + sched.body)))
      ELSE Outcome(Ok, Flat(all))

\* the serve with the locals l has returned what it returns run by itself
AsAlone(l) ==
  l.pc = "done" => Outcome(l.result, l.writer) = Alone(router, l.wire, Schedule(l))

\* a serve has been called and has not been given up by the caller
Serving == pc # "build" \/ other.pc # "build"

\* C16: no step taken while a serve is running or starting changes the
\* Router, neither the state type attached nor the route chain; and of two
\* serves on one Router, each with its own reader and writer, interleaved
\* where they await the transport, each returns the result and has written
\* the bytes of the same serve run by itself on what its transport delivered.
C16_SharedRouterReadOnly ==
  /\ [][Serving' => (router' = router /\ registered' = registered)]_vars
  /\ [](AsAlone(Current) /\ AsAlone(other))

\* the second serve ran from its call to its return, its handler reading the
\* request body from its own reader, while the first one was suspended
\* between two chunks of its response
C16_Witness ==
  /\ cur = 2
  /\ pc = "done"
  /\ result = Ok
  /\ writer = PongOutput
  /\ Len(request_reads) > 2
  /\ other.pc = "chunk"
  /\ Len(other.writes) > 2
  /\ other.wire # wire

====
